---------------------------- MODULE Spec2Model ----------------------------
(***************************************************************************)
(* Model of triangles.go: enumeration of the connected patterns of N unit  *)
(* triangles on the triangular lattice, up to translation, rotation and    *)
(* reflection.                                                             *)
(*                                                                         *)
(* A triangle is a record [x, y, z]; a pattern is a record                 *)
(* [triangles, patternHash, validHash]; Go strings are sequences of byte   *)
(* codes, so that fmt.Sprintf, sort.Strings and strings.Join are modelled  *)
(* by what they compute.                                                   *)
(***************************************************************************)
EXTENDS Integers, Sequences, FiniteSets, TLC

\* ------------------------------------------------------------------ bounds

\* Largest number of triangles the enumeration is run for.
MaxN == 5

\* main is also given the inputs -InputBelow .. minNumTriangles-1 and
\* maxNumTriangles+1 .. maxNumTriangles+InputAbove.
InputBelow == 2
InputAbove == 1

\* Cells of the pure-function specifications are those reached from the seed
\* (0,1,0) by at most MaxDist getNeighbour steps.
MaxDist == 1

\* Largest number of cells of a pattern handed to getAligned.
MaxCells == 2

\* Largest |shift| of one getShifted step and largest number of such steps.
MaxShift == 1
MaxShifts == 2

\* Largest number of getRotated applications in a row.
MaxRotations == 7

\* ------------------------------------------------------- program constants

minNumTriangles == 4
maxNumTriangles == 16

\* ------------------------------------------------------------------- state

VARIABLES
    pc,            \* position of main: "main", "generate", "draw", "exit"
    numTriangles,  \* main's numTriangles (the value Scanf left in it)
    reported,      \* TRUE once main has printed its validation error
    stack,         \* call stack of generatePatterns, innermost frame last
    patterns,      \* pattCol.patterns
    drawn,         \* main's loop index i over pattCol.patterns
    refpc,         \* position of the reference enumeration
    refStack,      \* call stack of the reference enumeration
    refPatterns,   \* result collection of the reference enumeration
    cell0,         \* the cell a chain of rotations started from
    cell,          \* the cell after the rotations applied so far
    applied,       \* number of getRotated applications so far
    angleSum,      \* sum of the angles of those applications
    pat0,          \* the pattern a chain of shifts started from
    pat,           \* the pattern after the shifts applied so far
    shifts,        \* number of getShifted steps applied so far
    aligned        \* [done, result]: getAligned(3) of pat, once computed

vars == <<pc, numTriangles, reported, stack, patterns, drawn,
          refpc, refStack, refPatterns,
          cell0, cell, applied, angleSum, pat0, pat, shifts, aligned>>

mainVars == <<pc, numTriangles, reported, drawn>>
genVars == <<stack, patterns>>
refVars == <<refpc, refStack, refPatterns>>
rotVars == <<cell0, cell, applied, angleSum>>
alignVars == <<pat0, pat, shifts, aligned>>

\* ---------------------------------------------------------------- triangle

newTriangle(x, y, z) == [x |-> x, y |-> y, z |-> z]

triangle_getCopy(t) == newTriangle(t.x, t.y, t.z)

triangle_isEqual(t, other) == t.x = other.x /\ t.y = other.y /\ t.z = other.z

triangle_getCoord(t, axis) ==
    CASE axis = 1 -> t.x
      [] axis = 2 -> t.y
      [] axis = 3 -> t.z
      [] OTHER -> 0

triangle_getNeighbourCoords(t, axis) ==
    LET look == t.x + t.y + t.z IN
    CASE axis = 1 -> <<t.x, t.y - look, t.z - look>>
      [] axis = 2 -> <<t.x - look, t.y, t.z - look>>
      [] axis = 3 -> <<t.x - look, t.y - look, t.z>>
      [] OTHER -> <<0, 0, 0>>

triangle_getNeighbour(t, axis) ==
    LET c == triangle_getNeighbourCoords(t, axis) IN newTriangle(c[1], c[2], c[3])

\* getRotatedCoords with the result of angle 4 also given for angle 2.
getRotatedCoords_angle2and4same(t, angle) ==
    CASE angle = 1 -> <<-t.y, -t.z, -t.x>>
      [] angle = 2 -> <<t.y, t.z, t.x>>
      [] angle = 3 -> <<-t.x, -t.y, -t.z>>
      [] angle = 4 -> <<t.y, t.z, t.x>>
      [] angle = 5 -> <<-t.z, -t.x, -t.y>>
      [] OTHER -> <<t.x, t.y, t.z>>

triangle_getRotatedCoords(t, angle) ==
    CASE angle = 1 -> <<-t.y, -t.z, -t.x>>
      [] angle = 2 -> <<t.z, t.x, t.y>>
      [] angle = 3 -> <<-t.x, -t.y, -t.z>>
      [] angle = 4 -> <<t.y, t.z, t.x>>
      [] angle = 5 -> <<-t.z, -t.x, -t.y>>
      [] OTHER -> <<t.x, t.y, t.z>>

triangle_getRotated(t, angle) ==
    LET c == triangle_getRotatedCoords(t, angle) IN newTriangle(c[1], c[2], c[3])

triangle_getReflectedCoords(t, axis) ==
    CASE axis = 1 -> <<-t.x, -t.z, -t.y>>
      [] axis = 2 -> <<-t.z, -t.y, -t.x>>
      [] axis = 3 -> <<-t.y, -t.x, -t.z>>
      [] OTHER -> <<t.x, t.y, t.z>>

triangle_getReflected(t, axis) ==
    LET c == triangle_getReflectedCoords(t, axis) IN newTriangle(c[1], c[2], c[3])

\* getShiftedCoords with the shift along axis 2 changing x alone.
getShiftedCoords_oneCoordinate(t, shift, axis) ==
    CASE axis = 1 -> <<t.x, t.y + shift, t.z - shift>>
      [] axis = 2 -> <<t.x - shift, t.y, t.z>>
      [] axis = 3 -> <<t.x + shift, t.y - shift, t.z>>
      [] OTHER -> <<t.x, t.y, t.z>>

triangle_getShiftedCoords(t, shift, axis) ==
    CASE axis = 1 -> <<t.x, t.y + shift, t.z - shift>>
      [] axis = 2 -> <<t.x - shift, t.y, t.z + shift>>
      [] axis = 3 -> <<t.x + shift, t.y - shift, t.z>>
      [] OTHER -> <<t.x, t.y, t.z>>

triangle_getShifted(t, shift, axis) ==
    LET c == triangle_getShiftedCoords(t, shift, axis) IN newTriangle(c[1], c[2], c[3])

\* ----------------------------------------------------------------- strings

\* Decimal digits of n >= 0, as byte codes ('0' is 48).
RECURSIVE Digits(_)
Digits(n) == IF n < 10 THEN <<48 + n>> ELSE Digits(n \div 10) \o <<48 + (n % 10)>>

\* The verb %d of fmt.Sprintf ('-' is 45).
FormatInt(v) == IF v < 0 THEN <<45>> \o Digits(-v) ELSE Digits(v)

\* fmt.Sprintf("%d,%d,%d", t.x, t.y, t.z) (',' is 44).
Sprintf(t) == FormatInt(t.x) \o <<44>> \o FormatInt(t.y) \o <<44>> \o FormatInt(t.z)

\* Go's a < b on strings: bytewise lexicographic order.
RECURSIVE StringLessFrom(_, _, _)
StringLessFrom(a, b, k) ==
    IF k > Len(b) THEN FALSE
    ELSE IF k > Len(a) THEN TRUE
    ELSE IF a[k] < b[k] THEN TRUE
    ELSE IF a[k] > b[k] THEN FALSE
    ELSE StringLessFrom(a, b, k + 1)

StringLess(a, b) == StringLessFrom(a, b, 1)

\* arr with s inserted before the first element greater than s (arr sorted).
RECURSIVE InsertSorted(_, _)
InsertSorted(arr, s) ==
    IF arr = <<>> THEN <<s>>
    ELSE IF StringLess(s, Head(arr)) THEN <<s>> \o arr
    ELSE <<Head(arr)>> \o InsertSorted(Tail(arr), s)

\* sort.Strings(arr): arr in increasing order.
RECURSIVE SortStrings(_)
SortStrings(arr) ==
    IF arr = <<>> THEN <<>>
    ELSE InsertSorted(SortStrings(Tail(arr)), Head(arr))

\* strings.Join(arr, " ") (' ' is 32).
RECURSIVE Join(_)
Join(arr) ==
    IF arr = <<>> THEN <<>>
    ELSE IF Len(arr) = 1 THEN arr[1]
    ELSE arr[1] \o <<32>> \o Join(Tail(arr))

\* Go's integer division, which truncates towards zero.
GoDiv(a, b) ==
    LET q == (IF a < 0 THEN -a ELSE a) \div (IF b < 0 THEN -b ELSE b)
    IN IF (a < 0) = (b < 0) THEN q ELSE -q


\* ----------------------------------------------------------------- pattern

newPattern == [triangles |-> <<>>, patternHash |-> <<>>, validHash |-> FALSE]

pattern_len(p) == Len(p.triangles)

pattern_validateHash(p) ==
    IF ~p.validHash
    THEN [p EXCEPT
            !.patternHash =
                Join(SortStrings([i \in 1..Len(p.triangles) |-> Sprintf(p.triangles[i])])),
            !.validHash = TRUE]
    ELSE p

pattern_addTriangle(p, t) ==
    [p EXCEPT !.triangles = Append(@, t), !.validHash = FALSE]

\* p after one addTriangle per element of ts, in order.
AddTriangles(p, ts) ==
    IF Len(ts) = 0 THEN p
    ELSE [p EXCEPT !.triangles = @ \o ts, !.validHash = FALSE]

pattern_getCopy(p) ==
    pattern_validateHash(
        AddTriangles(newPattern,
                     [i \in 1..Len(p.triangles) |-> triangle_getCopy(p.triangles[i])]))

pattern_contains(p, t) ==
    \E i \in 1..Len(p.triangles) : triangle_isEqual(p.triangles[i], t)

\* The loop of getMinCoord from index i on, with minCoord the minimum so far.
RECURSIVE MinCoordFrom(_, _, _, _)
MinCoordFrom(p, axis, i, minCoord) ==
    IF i > Len(p.triangles) THEN minCoord
    ELSE LET currCoord == triangle_getCoord(p.triangles[i], axis)
         IN MinCoordFrom(p, axis, i + 1,
                         IF currCoord < minCoord THEN currCoord ELSE minCoord)

pattern_getMinCoord(p, axis) ==
    IF Len(p.triangles) = 0 THEN 0
    ELSE MinCoordFrom(p, axis, 2, triangle_getCoord(p.triangles[1], axis))

\* The loop of getMaxCoord from index i on, with maxCoord the maximum so far.
RECURSIVE MaxCoordFrom(_, _, _, _)
MaxCoordFrom(p, axis, i, maxCoord) ==
    IF i > Len(p.triangles) THEN maxCoord
    ELSE LET currCoord == triangle_getCoord(p.triangles[i], axis)
         IN MaxCoordFrom(p, axis, i + 1,
                         IF currCoord > maxCoord THEN currCoord ELSE maxCoord)

pattern_getMaxCoord(p, axis) ==
    IF Len(p.triangles) = 0 THEN 0
    ELSE MaxCoordFrom(p, axis, 2, triangle_getCoord(p.triangles[1], axis))

pattern_getShifted(p, shift, axis) ==
    AddTriangles(newPattern,
                 [i \in 1..Len(p.triangles) |->
                    triangle_getShifted(p.triangles[i], shift, axis)])

pattern_getRotated(p, angle) ==
    AddTriangles(newPattern,
                 [i \in 1..Len(p.triangles) |-> triangle_getRotated(p.triangles[i], angle)])

pattern_getReflected(p, axis) ==
    AddTriangles(newPattern,
                 [i \in 1..Len(p.triangles) |-> triangle_getReflected(p.triangles[i], axis)])

\* getAligned taking the shifts of freeAxis = 1 for every freeAxis.
getAligned_case1ForAll(p, freeAxis) ==
    LET max_coord == pattern_getMaxCoord(p, 2)
        aligned1 == pattern_getShifted(p, max_coord, 3)
        min_coord == pattern_getMinCoord(aligned1, 3)
    IN pattern_getShifted(aligned1, -min_coord, 2)

\* getAligned(3) without its second shift.
getAligned_noSecondShift(p, freeAxis) ==
    pattern_getShifted(p, pattern_getMaxCoord(p, 1), 2)

\* The switch has no default: for a freeAxis outside 1..3 the code returns
\* nil, and no call passes one (isEqual passes 3).
pattern_getAligned(p, freeAxis) ==
    CASE freeAxis = 1 ->
            LET max_coord == pattern_getMaxCoord(p, 2)
                aligned1 == pattern_getShifted(p, max_coord, 3)
                min_coord == pattern_getMinCoord(aligned1, 3)
            IN pattern_getShifted(aligned1, -min_coord, 2)
      [] freeAxis = 2 ->
            LET max_coord == pattern_getMaxCoord(p, 3)
                aligned1 == pattern_getShifted(p, max_coord, 1)
                min_coord == pattern_getMinCoord(aligned1, 1)
            IN pattern_getShifted(aligned1, -min_coord, 3)
      [] freeAxis = 3 ->
            LET max_coord == pattern_getMaxCoord(p, 1)
                aligned1 == pattern_getShifted(p, max_coord, 2)
                min_coord == pattern_getMinCoord(aligned1, 2)
            IN pattern_getShifted(aligned1, -min_coord, 1)

pattern_getCentered(p) ==
    LET mean1 == GoDiv(pattern_getMinCoord(p, 1) + pattern_getMaxCoord(p, 1), 2)
        centered1 == pattern_getShifted(p, mean1, 2)
        mean2 == GoDiv(pattern_getMinCoord(centered1, 2)
                       + pattern_getMaxCoord(centered1, 2), 2)
    IN pattern_getShifted(centered1, -mean2, 1)

\* The loop of isEqual without the reflected comparison (j = 2).
RECURSIVE isEqualFrom_noReflection(_, _, _)
isEqualFrom_noReflection(pAligned, otherRotated, i) ==
    LET freeAxis == 3
        otherAligned1 ==
            pattern_validateHash(pattern_getAligned(otherRotated, freeAxis))
    IN IF pAligned.patternHash = otherAligned1.patternHash THEN TRUE
       ELSE IF i < 6
       THEN isEqualFrom_noReflection(pAligned, pattern_getRotated(otherRotated, 1), i + 1)
       ELSE FALSE

\* The loop of isEqual ending after i = 3.
RECURSIVE isEqualFrom_threeRotations(_, _, _)
isEqualFrom_threeRotations(pAligned, otherRotated, i) ==
    LET freeAxis == 3
        otherAligned1 ==
            pattern_validateHash(pattern_getAligned(otherRotated, freeAxis))
        otherAligned2 ==
            pattern_validateHash(
                pattern_getAligned(pattern_getReflected(otherRotated, freeAxis),
                                   freeAxis))
    IN IF pAligned.patternHash = otherAligned1.patternHash THEN TRUE
       ELSE IF pAligned.patternHash = otherAligned2.patternHash THEN TRUE
       ELSE IF i < 3
       THEN isEqualFrom_threeRotations(pAligned, pattern_getRotated(otherRotated, 1), i + 1)
       ELSE FALSE

\* Iterations i..6 of the loop of isEqual, with pAligned already validated and
\* otherRotated the value of that variable at the start of iteration i.
RECURSIVE isEqualFrom(_, _, _)
isEqualFrom(pAligned, otherRotated, i) ==
    LET freeAxis == 3
        otherAligned1 ==
            pattern_validateHash(pattern_getAligned(otherRotated, freeAxis))
        otherAligned2 ==
            pattern_validateHash(
                pattern_getAligned(pattern_getReflected(otherRotated, freeAxis),
                                   freeAxis))
    IN IF pAligned.patternHash = otherAligned1.patternHash THEN TRUE
       ELSE IF pAligned.patternHash = otherAligned2.patternHash THEN TRUE
       ELSE IF i < 6 THEN isEqualFrom(pAligned, pattern_getRotated(otherRotated, 1), i + 1)
       ELSE FALSE

pattern_isEqual(p, other) ==
    LET freeAxis == 3
        pAligned == pattern_validateHash(pattern_getAligned(p, freeAxis))
    IN isEqualFrom(pAligned, other, 1)


\* ------------------------------------------------------ patternsCollection

\* A frame of generatePatterns(toAdd, sketch): i and axis are the loop
\* variables of the general branch, pos is "body" until the function has
\* nothing left to do and "ret" when it is about to return.
Frame(toAdd, sketch) ==
    [toAdd |-> toAdd, sketch |-> sketch, i |-> 0, axis |-> 1, pos |-> "body"]

Top(st) == st[Len(st)]

SetTop(st, f) == [st EXCEPT ![Len(st)] = f]

\* The append without the scan.
Finalize_noScan(pats, newSketch) == Append(pats, pattern_getCentered(newSketch))

\* The scan of the collection for a pattern equal to newSketch, and the append
\* of the centered newSketch when there is none.
Finalize(pats, newSketch) ==
    IF \E j \in 1..Len(pats) : pattern_isEqual(pats[j], newSketch)
    THEN pats
    ELSE Append(pats, pattern_getCentered(newSketch))

\* "if toAdd > 1 { pc.generatePatterns(toAdd-1, newSketch) } else { ... }":
\* st is the stack with the caller's frame already moved on.
Descend(st, pats, toAdd, newSketch) ==
    IF toAdd > 1
    THEN [stack |-> Append(st, Frame(toAdd - 1, newSketch)), patterns |-> pats]
    ELSE [stack |-> st, patterns |-> Finalize(pats, newSketch)]

\* The branch sketch.len() == 0.
SeedStep(st, pats) ==
    LET f == Top(st)
        sketch == pattern_addTriangle(f.sketch, newTriangle(0, 1, 0))
        st1 == SetTop(st, [f EXCEPT !.sketch = sketch, !.pos = "ret"])
    IN IF f.toAdd > 1
       THEN [stack |-> Append(st1, Frame(f.toAdd - 1, sketch)), patterns |-> pats]
       ELSE [stack |-> st1, patterns |-> Append(pats, sketch)]

\* The branch sketch.len() <= 2 with the neighbour always taken along axis 1.
NucleateStep_axisOne(st, pats) ==
    LET f == Top(st)
        neighbour == triangle_getNeighbour(f.sketch.triangles[1], 1)
        newSketch == pattern_addTriangle(pattern_getCopy(f.sketch), neighbour)
    IN Descend(SetTop(st, [f EXCEPT !.pos = "ret"]), pats, f.toAdd, newSketch)

\* The branch sketch.len() <= 2.
NucleateStep(st, pats) ==
    LET f == Top(st)
        neighbour == triangle_getNeighbour(f.sketch.triangles[1], pattern_len(f.sketch))
        newSketch == pattern_addTriangle(pattern_getCopy(f.sketch), neighbour)
    IN Descend(SetTop(st, [f EXCEPT !.pos = "ret"]), pats, f.toAdd, newSketch)

\* An iteration of the general branch without the test sketch.contains.
BranchStep_noContains(st, pats) ==
    LET f == Top(st)
        neighbour == triangle_getNeighbour(f.sketch.triangles[f.i + 1], f.axis)
        newSketch == pattern_addTriangle(pattern_getCopy(f.sketch), neighbour)
        last == f.axis = 3 /\ f.i + 1 = pattern_len(f.sketch)
        moved == [f EXCEPT !.axis = IF f.axis < 3 THEN f.axis + 1 ELSE 1,
                           !.i = IF f.axis < 3 THEN f.i ELSE f.i + 1,
                           !.pos = IF last THEN "ret" ELSE "body"]
    IN Descend(SetTop(st, moved), pats, f.toAdd, newSketch)

\* One iteration (i, axis) of the loops of the general branch.
BranchStep(st, pats) ==
    LET f == Top(st)
        neighbour == triangle_getNeighbour(f.sketch.triangles[f.i + 1], f.axis)
        newSketch == pattern_addTriangle(pattern_getCopy(f.sketch), neighbour)
        last == f.axis = 3 /\ f.i + 1 = pattern_len(f.sketch)
        moved == [f EXCEPT !.axis = IF f.axis < 3 THEN f.axis + 1 ELSE 1,
                           !.i = IF f.axis < 3 THEN f.i ELSE f.i + 1,
                           !.pos = IF last THEN "ret" ELSE "body"]
    IN IF pattern_contains(f.sketch, neighbour)
       THEN [stack |-> SetTop(st, moved), patterns |-> pats]
       ELSE Descend(SetTop(st, moved), pats, f.toAdd, newSketch)

\* The return of the innermost call.
ReturnStep(st) == SubSeq(st, 1, Len(st) - 1)

InBody(st) == st # <<>> /\ Top(st).pos = "body"

\* ---------------------------------------------------------- generatePatterns

GenSeed ==
    /\ pc = "generate"
    /\ InBody(stack)
    /\ pattern_len(Top(stack).sketch) = 0
    /\ \E r \in {SeedStep(stack, patterns)} :
          stack' = r.stack /\ patterns' = r.patterns
    /\ UNCHANGED <<mainVars, refVars, rotVars, alignVars>>

GenNucleate ==
    /\ pc = "generate"
    /\ InBody(stack)
    /\ pattern_len(Top(stack).sketch) # 0
    /\ pattern_len(Top(stack).sketch) <= 2
    /\ \E r \in {NucleateStep(stack, patterns)} :
          stack' = r.stack /\ patterns' = r.patterns
    /\ UNCHANGED <<mainVars, refVars, rotVars, alignVars>>

GenBranch ==
    /\ pc = "generate"
    /\ InBody(stack)
    /\ pattern_len(Top(stack).sketch) > 2
    /\ \E r \in {BranchStep(stack, patterns)} :
          stack' = r.stack /\ patterns' = r.patterns
    /\ UNCHANGED <<mainVars, refVars, rotVars, alignVars>>

GenReturn ==
    /\ pc = "generate"
    /\ stack # <<>>
    /\ Top(stack).pos = "ret"
    /\ stack' = ReturnStep(stack)
    /\ UNCHANGED <<patterns, mainVars, refVars, rotVars, alignVars>>

\* ---------------------------------------------------------------------- main

Inputs ==
    ((0 - InputBelow)..MaxN)
        \cup ((maxNumTriangles + 1)..(maxNumTriangles + InputAbove))

\* The test of main without its lower bound.
InvalidSize_upperOnly(n) == n > maxNumTriangles

\* numTriangles < minNumTriangles || numTriangles > maxNumTriangles
InvalidSize(n) == n < minNumTriangles \/ n > maxNumTriangles

\* From the prompt to the call of generatePatterns, or to the early return.
MainRead ==
    /\ pc = "main"
    /\ IF InvalidSize(numTriangles)
       THEN /\ reported' = TRUE
            /\ pc' = "exit"
            /\ UNCHANGED <<stack, patterns>>
       ELSE /\ pc' = "generate"
            /\ stack' = <<Frame(numTriangles, newPattern)>>
            /\ patterns' = <<>>
            /\ UNCHANGED reported
    /\ UNCHANGED <<numTriangles, drawn, refVars, rotVars, alignVars>>

\* generatePatterns has returned: the loop over pattCol.patterns starts.
MainLoop ==
    /\ pc = "generate"
    /\ stack = <<>>
    /\ pc' = "draw"
    /\ drawn' = 0
    /\ UNCHANGED <<numTriangles, reported, genVars, refVars, rotVars, alignVars>>

\* One iteration: drawPattern and saveAsPNG, which leave the pattern alone.
MainDraw ==
    /\ pc = "draw"
    /\ drawn < Len(patterns)
    /\ drawn' = drawn + 1
    /\ UNCHANGED <<pc, numTriangles, reported, genVars, refVars, rotVars, alignVars>>

MainExit ==
    /\ pc = "draw"
    /\ drawn = Len(patterns)
    /\ pc' = "exit"
    /\ UNCHANGED <<drawn, numTriangles, reported, genVars, refVars, rotVars, alignVars>>


\* ------------------------------------------------------ reference enumerator
\* generatePatterns with the general branch taken from the first cell on: the
\* enumeration the nucleation rule is compared with.  It runs on its own
\* stack and collection, after generatePatterns has returned.

RefStart ==
    /\ pc = "generate"
    /\ stack = <<>>
    /\ refpc = "idle"
    /\ refpc' = "run"
    /\ refStack' = <<Frame(numTriangles, newPattern)>>
    /\ refPatterns' = <<>>
    /\ UNCHANGED <<mainVars, genVars, rotVars, alignVars>>

RefSeed ==
    /\ refpc = "run"
    /\ InBody(refStack)
    /\ pattern_len(Top(refStack).sketch) = 0
    /\ \E r \in {SeedStep(refStack, refPatterns)} :
          refStack' = r.stack /\ refPatterns' = r.patterns
    /\ UNCHANGED <<refpc, mainVars, genVars, rotVars, alignVars>>

RefBranch ==
    /\ refpc = "run"
    /\ InBody(refStack)
    /\ pattern_len(Top(refStack).sketch) > 0
    /\ \E r \in {BranchStep(refStack, refPatterns)} :
          refStack' = r.stack /\ refPatterns' = r.patterns
    /\ UNCHANGED <<refpc, mainVars, genVars, rotVars, alignVars>>

RefReturn ==
    /\ refpc = "run"
    /\ refStack # <<>>
    /\ Top(refStack).pos = "ret"
    /\ refStack' = ReturnStep(refStack)
    /\ refpc' = IF Len(refStack) = 1 THEN "done" ELSE "run"
    /\ UNCHANGED <<refPatterns, mainVars, genVars, rotVars, alignVars>>

\* ------------------------------------------------- rotations and alignment

seed == newTriangle(0, 1, 0)

\* The cells reached from the seed by at most d getNeighbour steps.
RECURSIVE CellsWithin(_)
CellsWithin(d) ==
    IF d = 0 THEN {seed}
    ELSE LET S == CellsWithin(d - 1)
         IN S \cup {triangle_getNeighbour(c, axis) : c \in S, axis \in 1..3}

Cells == CellsWithin(MaxDist)

\* The patterns of at most MaxCells pairwise different cells, in every order.
InputPatterns ==
    {AddTriangles(newPattern, ts) :
        ts \in {q \in UNION {[1..n -> Cells] : n \in 0..MaxCells} :
                    \A i, j \in 1..Len(q) : i # j => q[i] # q[j]}}

\* triangle.getRotated(angle) applied to the current cell.
Rotate ==
    /\ applied < MaxRotations
    /\ \E angle \in 0..5 :
          /\ cell' = triangle_getRotated(cell, angle)
          /\ angleSum' = angleSum + angle
    /\ applied' = applied + 1
    /\ UNCHANGED <<cell0, mainVars, genVars, refVars, alignVars>>

\* pattern.getShifted(shift, axis) applied to the current pattern.
Shift ==
    /\ shifts < MaxShifts
    /\ \E shift \in (0 - MaxShift)..MaxShift, axis \in 1..3 :
          pat' = pattern_getShifted(pat, shift, axis)
    /\ shifts' = shifts + 1
    /\ aligned' = [done |-> FALSE, result |-> newPattern]
    /\ UNCHANGED <<pat0, mainVars, genVars, refVars, rotVars>>

\* The alignment isEqual performs: getAligned(freeAxis = 3), then validateHash.
Align ==
    /\ ~aligned.done
    /\ aligned' = [done |-> TRUE,
                   result |-> pattern_validateHash(pattern_getAligned(pat, 3))]
    /\ UNCHANGED <<pat0, pat, shifts, mainVars, genVars, refVars, rotVars>>

\* ------------------------------------------------------------ specifications

RefIdle == refpc = "idle" /\ refStack = <<>> /\ refPatterns = <<>>

RotIdle == cell0 = seed /\ cell = seed /\ applied = 0 /\ angleSum = 0

AlignIdle ==
    /\ pat0 = newPattern
    /\ pat = newPattern
    /\ shifts = 0
    /\ aligned = [done |-> FALSE, result |-> newPattern]

\* generatePatterns(n, newPattern()) on a new collection, for n in 1..MaxN.
Init ==
    /\ pc = "generate"
    /\ numTriangles \in 1..MaxN
    /\ reported = FALSE
    /\ drawn = 0
    /\ stack = <<Frame(numTriangles, newPattern)>>
    /\ patterns = <<>>
    /\ RefIdle /\ RotIdle /\ AlignIdle

Next == GenSeed \/ GenNucleate \/ GenBranch \/ GenReturn

Spec == Init /\ [][Next]_vars

\* The same call, followed by the reference enumeration for the same n.
NextRef == Next \/ RefStart \/ RefSeed \/ RefBranch \/ RefReturn

SpecRef == Init /\ [][NextRef]_vars

\* main, with the number Scanf stored in numTriangles drawn from Inputs
\* (0 is also what numTriangles holds when Scanf reads no number).
InitMain ==
    /\ pc = "main"
    /\ numTriangles \in Inputs
    /\ reported = FALSE
    /\ drawn = 0
    /\ stack = <<>>
    /\ patterns = <<>>
    /\ RefIdle /\ RotIdle /\ AlignIdle

NextMain == MainRead \/ Next \/ MainLoop \/ MainDraw \/ MainExit

SpecMain == InitMain /\ [][NextMain]_vars

GenIdle ==
    /\ pc = "exit"
    /\ numTriangles = 0
    /\ reported = FALSE
    /\ drawn = 0
    /\ stack = <<>>
    /\ patterns = <<>>

\* Chains of getRotated from every cell of Cells.
InitRot ==
    /\ cell0 \in Cells
    /\ cell = cell0
    /\ applied = 0
    /\ angleSum = 0
    /\ GenIdle /\ RefIdle /\ AlignIdle

SpecRot == InitRot /\ [][Rotate]_vars

\* Chains of getShifted from every pattern of InputPatterns, and getAligned.
InitAlign ==
    /\ pat0 \in InputPatterns
    /\ pat = pat0
    /\ shifts = 0
    /\ aligned = [done |-> FALSE, result |-> newPattern]
    /\ GenIdle /\ RefIdle /\ RotIdle

NextAlign == Shift \/ Align

SpecAlign == InitAlign /\ [][NextAlign]_vars


\* -------------------------------------------------------------------- claims

\* generatePatterns has returned to its first caller.
Returned == pc = "generate" /\ stack = <<>>

\* The sketch the next iteration of the innermost call hands to the scan of
\* the collection, if that iteration finalizes one.
Candidates ==
    IF ~(pc = "generate" /\ InBody(stack)) THEN {}
    ELSE LET f == Top(stack)
             n == pattern_len(f.sketch)
         IN IF f.toAdd > 1 \/ n = 0 THEN {}
            ELSE IF n <= 2
            THEN {pattern_addTriangle(pattern_getCopy(f.sketch),
                      triangle_getNeighbour(f.sketch.triangles[1], n))}
            ELSE LET neighbour ==
                         triangle_getNeighbour(f.sketch.triangles[f.i + 1], f.axis)
                 IN IF pattern_contains(f.sketch, neighbour) THEN {}
                    ELSE {pattern_addTriangle(pattern_getCopy(f.sketch), neighbour)}

Stored == {patterns[j] : j \in 1..Len(patterns)}

Sketches == {stack[k].sketch : k \in 1..Len(stack)}

\* p is a prefix of q.
IsPrefix(p, q) == Len(p) <= Len(q) /\ \A j \in 1..Len(p) : q[j] = p[j]

\* No two patterns of ps at different indices are isEqual.
NoDuplicatesIn(ps) ==
    \A i, j \in 1..Len(ps) : i # j => ~pattern_isEqual(ps[i], ps[j])

NoDuplicates == NoDuplicatesIn(patterns)

\* C1: during generatePatterns(N, empty sketch) and after it returns, the
\* collection only grows by appends and no two of its patterns at different
\* indices are isEqual: that is so at the start, every step keeps the
\* collection as a prefix, and it is so again after every step that changes
\* the collection.
C1_AppendOnlyNoDuplicates ==
    /\ NoDuplicates
    /\ [][\A ps \in {patterns'} :
              /\ IsPrefix(patterns, ps)
              /\ ps # patterns => NoDuplicatesIn(ps)]_vars

\* C1 witness: the scan is about to compare an uncentered sketch with a
\* collection of at least two centered patterns, one of which was moved by
\* getCentered, and finds it equal to one of them.
C1_Witness ==
    /\ Len(patterns) >= 2
    /\ \E p \in Stored : ~pattern_contains(p, seed)
    /\ \E c \in Candidates : \E p \in Stored : pattern_isEqual(p, c)

\* Every pattern of one collection is isEqual to a pattern of the other.
SameShapes(ps, qs) ==
    /\ Len(ps) = Len(qs)
    /\ \A i \in 1..Len(ps) : \E j \in 1..Len(qs) : pattern_isEqual(ps[i], qs[j])
    /\ \A j \in 1..Len(qs) : \E i \in 1..Len(ps) : pattern_isEqual(qs[j], ps[i])

\* C2: for N >= 3, generatePatterns with its nucleation rule and the reference
\* enumeration that branches from the first cell on end with collections of
\* the same length whose patterns are pairwise matched by isEqual.
C2_NucleationLosesNothing ==
    (refpc = "done" /\ numTriangles >= 3) => SameShapes(patterns, refPatterns)

\* C2 witness: both enumerations have ended for the largest N, with more than
\* one shape.
C2_Witness ==
    /\ refpc = "done"
    /\ numTriangles = MaxN
    /\ Len(patterns) > 1
    /\ Len(refPatterns) = Len(patterns)

\* The cells of the set cells that getNeighbour steps inside it reach from
\* the cells of S.
RECURSIVE Reach(_, _)
Reach(cells, S) ==
    LET T == S \cup ({triangle_getNeighbour(c, axis) : c \in S, axis \in 1..3}
                        \cap cells)
    IN IF T = S THEN S ELSE Reach(cells, T)

Connected(p) ==
    LET cells == {p.triangles[j] : j \in 1..Len(p.triangles)}
    IN \A c \in cells : Reach(cells, {c}) = cells

DistinctCells(p) ==
    \A i, j \in 1..Len(p.triangles) : i # j => p.triangles[i] # p.triangles[j]

\* C3: every stored pattern of generatePatterns(N, empty sketch), N >= 1, has
\* exactly N cells, pairwise different, and is connected by getNeighbour
\* steps inside the pattern.
C3_SizeAndConnected ==
    \A p \in Stored :
        /\ pattern_len(p) = numTriangles
        /\ DistinctCells(p)
        /\ Connected(p)

\* C3 witness: generatePatterns has returned for the largest N and stored a
\* pattern that getCentered moved off the seed.
C3_Witness ==
    /\ Returned
    /\ numTriangles = MaxN
    /\ \E p \in Stored : ~pattern_contains(p, seed) /\ pattern_len(p) = MaxN

\* C4 as claimed: generatePatterns(4, empty sketch) leaves exactly one pattern.
C4_OnePatternOfFour ==
    (Returned /\ numTriangles = 4) => Len(patterns) = 1

\* C4 as amended: generatePatterns(4, empty sketch) leaves exactly three
\* patterns, no two of them isEqual.
C4_ThreePatternsOfFour ==
    (Returned /\ numTriangles = 4) => (Len(patterns) = 3 /\ NoDuplicates)

\* C4 witness: generatePatterns(4, empty sketch) has returned.
C4_Witness == Returned /\ numTriangles = 4 /\ Len(patterns) > 0

\* C5: over the sketches and stored patterns of generatePatterns(N), isEqual
\* is reflexive, and symmetric between every finalized sketch and every
\* stored pattern or sketch, and between the stored patterns.
C5_ReflexiveSymmetric ==
    LET Pool == Stored \cup Sketches \cup Candidates
    IN /\ \A s \in Pool : pattern_isEqual(s, s)
       /\ \A c \in Candidates : \A s \in Pool :
              pattern_isEqual(c, s) = pattern_isEqual(s, c)
       /\ Returned =>
              \A s \in Stored : \A t \in Stored :
                  pattern_isEqual(s, t) = pattern_isEqual(t, s)

\* C5 witness: a finalized sketch that differs, as a list of cells, from a
\* stored pattern it is isEqual to, and is not isEqual to another one.
C5_Witness ==
    \E c \in Candidates : \E s, t \in Stored :
        /\ c.triangles # s.triangles
        /\ pattern_isEqual(c, s) /\ pattern_isEqual(s, c)
        /\ ~pattern_isEqual(c, t) /\ ~pattern_isEqual(t, c)

\* C6: getAligned(3) of a pattern translated by getShifted steps has the same
\* fingerprint as getAligned(3) of the pattern itself.
C6_AlignTranslationInvariant ==
    aligned.done =>
        aligned.result.patternHash
            = pattern_validateHash(pattern_getAligned(pat0, 3)).patternHash

\* C6 witness: a pattern of two cells, translated by MaxShifts steps to
\* another place, has been aligned.
C6_Witness ==
    /\ aligned.done
    /\ shifts = MaxShifts
    /\ pattern_len(pat0) >= 2
    /\ pat.triangles # pat0.triangles
    /\ aligned.result.triangles # pat.triangles

\* C7: getRotated applied with angles in 0..5 one after the other equals the
\* one getRotated by the sum of the angles mod 6; a sum that is a multiple of
\* 6 (six applications of angle 1) gives the cell back.
C7_RotationClosure ==
    /\ cell = triangle_getRotated(cell0, angleSum % 6)
    /\ (angleSum % 6 = 0 => cell = cell0)

\* C7 witness: six applications whose angles sum to 6 have been made.
C7_Witness == applied = 6 /\ angleSum = 6 /\ cell = cell0

ValidCells(p) ==
    \A k \in 1..Len(p.triangles) :
        LET t == p.triangles[k] IN t.x + t.y + t.z \in {1, -1}

\* otherRotated at the start of iteration i of the loop of isEqual.
RECURSIVE RotatedTimes(_, _)
RotatedTimes(p, k) ==
    IF k = 0 THEN p ELSE pattern_getRotated(RotatedTimes(p, k - 1), 1)

\* The patterns getAligned(p, 3) makes: its first shift and its result.
AlignedOf(p) ==
    {pattern_getShifted(p, pattern_getMaxCoord(p, 1), 2), pattern_getAligned(p, 3)}

\* The patterns getCentered(p) makes: its first shift and its result.
CenteredOf(p) ==
    {pattern_getShifted(p, GoDiv(pattern_getMinCoord(p, 1)
                                  + pattern_getMaxCoord(p, 1), 2), 2),
     pattern_getCentered(p)}

\* C8: every cell of every sketch and stored pattern has x+y+z in {1, -1},
\* and so has every cell of the patterns the scan and the append make of
\* them: getAligned of a stored pattern, the getRotated, getReflected and
\* getAligned patterns of the loop of isEqual on a finalized sketch, and its
\* getCentered; getNeighbour of a cell has the opposite sum.
C8_CoordinateSum ==
    /\ \A s \in Stored \cup Sketches \cup Candidates :
          /\ ValidCells(s)
          /\ \A k \in 1..Len(s.triangles) : \A axis \in 1..3 :
                LET t == s.triangles[k]
                    n == triangle_getNeighbour(t, axis)
                IN n.x + n.y + n.z = 0 - (t.x + t.y + t.z)
    /\ \A p \in Stored : \A q \in AlignedOf(p) : ValidCells(q)
    /\ \A c \in Candidates :
          /\ \A q \in CenteredOf(c) : ValidCells(q)
          /\ \A k \in 0..5 :
                LET r == RotatedTimes(c, k)
                    m == pattern_getReflected(r, 3)
                IN /\ ValidCells(r)
                   /\ ValidCells(m)
                   /\ \A q \in AlignedOf(r) \cup AlignedOf(m) : ValidCells(q)

\* C8 witness: a sketch of MaxN cells of both orientations is about to be
\* compared with stored patterns.
C8_Witness ==
    \E c \in Candidates :
        /\ pattern_len(c) = MaxN
        /\ Len(patterns) >= 1
        /\ \E i, j \in 1..MaxN :
              /\ c.triangles[i].x + c.triangles[i].y + c.triangles[i].z = 1
              /\ c.triangles[j].x + c.triangles[j].y + c.triangles[j].z = -1

\* C9: for a numTriangles outside minNumTriangles..maxNumTriangles, main
\* reports the validation error and ends, and no pattern is ever stored and
\* generatePatterns is never called.
C9_InvalidSizeReported ==
    (numTriangles < minNumTriangles \/ numTriangles > maxNumTriangles) =>
        /\ patterns = <<>>
        /\ stack = <<>>
        /\ pc \in {"main", "exit"}
        /\ (pc = "exit" => reported)

\* C9 witness: main has ended on the input 0 with the error reported.
C9_Witness == pc = "exit" /\ numTriangles = 0 /\ reported /\ patterns = <<>>

\* C10 as claimed: getAligned(3) shifts along axis 3 by the maximum along
\* axis 2, then along axis 2 by minus the result's minimum along axis 3.
C10_ShiftsAsClaimed ==
    aligned.done =>
        LET first == pattern_getShifted(pat, pattern_getMaxCoord(pat, 2), 3)
        IN aligned.result.triangles
              = pattern_getShifted(first, 0 - pattern_getMinCoord(first, 3), 2).triangles

\* C10 as amended: getAligned(3) shifts along axis 2 by the maximum along
\* axis 1, then along axis 1 by minus the result's minimum along axis 2.
C10_ShiftsOfTheCode ==
    aligned.done =>
        LET first == pattern_getShifted(pat, pattern_getMaxCoord(pat, 1), 2)
        IN aligned.result.triangles
              = pattern_getShifted(first, 0 - pattern_getMinCoord(first, 2), 1).triangles

\* C10 witness: a pattern of two cells has been aligned, and both shifts
\* moved it.
C10_Witness ==
    /\ aligned.done
    /\ pattern_len(pat) >= 2
    /\ pattern_getMaxCoord(pat, 1) # 0
    /\ LET first == pattern_getShifted(pat, pattern_getMaxCoord(pat, 1), 2)
       IN pattern_getMinCoord(first, 2) # 0 /\ first.triangles # pat.triangles

=============================================================================
